---------------------------- MODULE Spec2Model ----------------------------
(***************************************************************************)
(* State-machine model of src/virt-viewer-window.c: the window controller  *)
(* of virt-viewer (fullscreen transition, zoom level, accelerator          *)
(* arbitration, display attachment).                                       *)
(*                                                                         *)
(* Every C function that changes state is an operator from a state record  *)
(* to a state record, so that a function calling another one is the        *)
(* composition of the two operators.  An action of the model is one entry  *)
(* point (a public function, a signal handler, a menu action) run to       *)
(* completion: the GTK main loop is single threaded.                       *)
(***************************************************************************)
EXTENDS Integers, Sequences, FiniteSets

(***************************************************************************)
(* Program constants.                                                      *)
(***************************************************************************)
ZOOM_STEP == 10
\* virt-viewer-window.h / virt-viewer-display.h are not part of src/
MIN_ZOOM_LEVEL == 10
MAX_ZOOM_LEVEL == 400
NORMAL_ZOOM_LEVEL == 100
MIN_DISPLAY_WIDTH == 50
MIN_DISPLAY_HEIGHT == 50

(***************************************************************************)
(* Bounds of the model.                                                    *)
(***************************************************************************)
\* number of Display objects of the session
NumDisplays == 2
\* highest monitor index (monitors are -1 = unset, 0 .. MaxMonitor)
MaxMonitor == 1
\* how many times the same display may be connected by set_display
MaxSubs == 2

Displays == 1..NumDisplays
\* priv->display == NULL
NoDisplay == 0
Monitors == (-1)..MaxMonitor
\* zoom levels requested through virt_viewer_window_set_zoom_level
ZoomRequests == {0, 30, 100, 900}
\* desktop sizes <<width, height>> a display may report
DesktopSizes == {<<550, 400>>, <<100, 80>>}
\* widths GTK may have allocated to the display widget
AllocWidths == {220, 550}
\* preferred width of the "top-menu" widget
TopMenuWidths == {30, 200}
\* values of the gtk-menu-bar-accel setting
MenuBarAccels == {"F10", "F9"}
\* accelerator groups attached to the window at construction
AccelList == {"accelgroup", "uigroup"}
\* priv->accel_group
accel_group == "accelgroup"

VARIABLES
    \* _VirtViewerWindowPrivate
    display, accel_enabled, accel_setting, enable_mnemonics_save, grabbed,
    fullscreen_monitor, desktop_resize_pending, kiosk, zoomlevel, fullscreen,
    initial_zoom_set,
    \* GTK state of priv->window
    visible, map_handlers, map_event_pending, ever_mapped, win_fullscreen,
    win_accel_groups, gear_entries, connected,
    \* GtkSettings
    menu_bar_accel, enable_mnemonics,
    \* GTK layout input
    top_menu_width,
    \* VirtViewerApp
    app_fullscreen, enable_accel,
    \* VirtViewerDisplay objects, one entry per display
    d_monitor, d_fullscreen, d_zoom, d_enabled, d_ready, d_size,
    \* observation of the last entry point: the calls it made, and what it was
    calls, last

vars == <<display, accel_enabled, accel_setting, enable_mnemonics_save, grabbed,
          fullscreen_monitor, desktop_resize_pending, kiosk, zoomlevel, fullscreen,
          initial_zoom_set, visible, map_handlers, map_event_pending, ever_mapped,
          win_fullscreen, win_accel_groups, gear_entries, connected,
          menu_bar_accel, enable_mnemonics, top_menu_width,
          app_fullscreen, enable_accel,
          d_monitor, d_fullscreen, d_zoom, d_enabled, d_ready, d_size,
          calls, last>>

\* the state as one record, the argument and result of the operators below
State ==
    [display |-> display, accel_enabled |-> accel_enabled,
     accel_setting |-> accel_setting,
     enable_mnemonics_save |-> enable_mnemonics_save, grabbed |-> grabbed,
     fullscreen_monitor |-> fullscreen_monitor,
     desktop_resize_pending |-> desktop_resize_pending, kiosk |-> kiosk,
     zoomlevel |-> zoomlevel, fullscreen |-> fullscreen,
     initial_zoom_set |-> initial_zoom_set,
     visible |-> visible, map_handlers |-> map_handlers,
     map_event_pending |-> map_event_pending, ever_mapped |-> ever_mapped,
     win_fullscreen |-> win_fullscreen, win_accel_groups |-> win_accel_groups,
     gear_entries |-> gear_entries, connected |-> connected,
     menu_bar_accel |-> menu_bar_accel, enable_mnemonics |-> enable_mnemonics,
     top_menu_width |-> top_menu_width,
     app_fullscreen |-> app_fullscreen, enable_accel |-> enable_accel,
     d_monitor |-> d_monitor, d_fullscreen |-> d_fullscreen, d_zoom |-> d_zoom,
     d_enabled |-> d_enabled, d_ready |-> d_ready, d_size |-> d_size,
     calls |-> calls, last |-> last]

\* the state after an entry point has run
Commit(s) ==
    /\ display' = s.display
    /\ accel_enabled' = s.accel_enabled
    /\ accel_setting' = s.accel_setting
    /\ enable_mnemonics_save' = s.enable_mnemonics_save
    /\ grabbed' = s.grabbed
    /\ fullscreen_monitor' = s.fullscreen_monitor
    /\ desktop_resize_pending' = s.desktop_resize_pending
    /\ kiosk' = s.kiosk
    /\ zoomlevel' = s.zoomlevel
    /\ fullscreen' = s.fullscreen
    /\ initial_zoom_set' = s.initial_zoom_set
    /\ visible' = s.visible
    /\ map_handlers' = s.map_handlers
    /\ map_event_pending' = s.map_event_pending
    /\ ever_mapped' = s.ever_mapped
    /\ win_fullscreen' = s.win_fullscreen
    /\ win_accel_groups' = s.win_accel_groups
    /\ gear_entries' = s.gear_entries
    /\ connected' = s.connected
    /\ menu_bar_accel' = s.menu_bar_accel
    /\ enable_mnemonics' = s.enable_mnemonics
    /\ top_menu_width' = s.top_menu_width
    /\ app_fullscreen' = s.app_fullscreen
    /\ enable_accel' = s.enable_accel
    /\ d_monitor' = s.d_monitor
    /\ d_fullscreen' = s.d_fullscreen
    /\ d_zoom' = s.d_zoom
    /\ d_enabled' = s.d_enabled
    /\ d_ready' = s.d_ready
    /\ d_size' = s.d_size
    /\ calls' = s.calls
    /\ last' = s.last

\* the entry points whose predecessor is part of the observation
FullscreenOps == {"enter_fullscreen", "leave_fullscreen"}

\* an entry point starts: the observation is reset.  args is a tuple of
\* integers, alloc the width GTK reports for the display widget while it runs;
\* prev_op and prev_args are the entry point that ran just before, kept when
\* both are fullscreen entry points
Begin(op, args, alloc) ==
    LET track == op \in FullscreenOps /\ last.op \in FullscreenOps
    IN  [State EXCEPT !.calls = <<>>,
                      !.last = [op |-> op, args |-> args, alloc |-> alloc,
                                prev_op |-> IF track THEN last.op ELSE "",
                                prev_args |-> IF track THEN last.args ELSE <<>>]]

\* a call into GTK or into a VirtViewerDisplay: f the function, d the display
\* it is made on (NoDisplay for the window), v its argument
Call(s, f, d, v) == [s EXCEPT !.calls = Append(@, [f |-> f, d |-> d, v |-> v])]

Bool2Int(b) == IF b THEN 1 ELSE 0

\* the calls among cs made to function f
CallsTo(cs, f) == SelectSeq(cs, LAMBDA c : c.f = f)

\* the number of handlers connected to the signals of display d
Subs(seq, d) == Len(SelectSeq(seq, LAMBDA x : x = d))


(***************************************************************************)
(* Fullscreen transition.                                                  *)
(***************************************************************************)
\* gtk_widget_get_visible / gtk_widget_get_mapped of the toplevel window:
\* gtk_widget_show maps a toplevel at once, gtk_widget_hide unmaps it
gtk_widget_get_visible(s) == s.visible
gtk_widget_get_mapped(s) == s.visible

\* virt_viewer_display_set_monitor
virt_viewer_display_set_monitor(s, d, m) ==
    Call([s EXCEPT !.d_monitor[d] = m], "set_monitor", d, m)

\* virt_viewer_display_set_fullscreen
virt_viewer_display_set_fullscreen(s, d, b) ==
    Call([s EXCEPT !.d_fullscreen[d] = b], "set_fullscreen", d, Bool2Int(b))

\* virt_viewer_window_move_to_monitor
virt_viewer_window_move_to_monitor(s) ==
    IF s.fullscreen_monitor = -1
    THEN s
    ELSE Call(s, "move_to_monitor", NoDisplay, s.fullscreen_monitor)

\* virt_viewer_window_queue_resize
virt_viewer_window_queue_resize(s) ==
    Call(s, "queue_resize", NoDisplay, 0)

\* the body of virt_viewer_window_leave_fullscreen once priv->fullscreen is
\* known to be set
leave_fullscreen_effects(s) ==
    LET s1 == [s EXCEPT !.fullscreen = FALSE, !.fullscreen_monitor = -1]
        s2 == IF s1.display # NoDisplay
              THEN virt_viewer_display_set_fullscreen(
                       virt_viewer_display_set_monitor(s1, s1.display, -1),
                       s1.display, FALSE)
              ELSE s1
        s3 == Call(s2, "force_reveal", NoDisplay, 0)
        s4 == Call(s3, "headerbar_hide", NoDisplay, 0)
        s5 == Call(s4, "set_size_request", NoDisplay, -1)
    IN  Call([s5 EXCEPT !.win_fullscreen = FALSE], "gtk_window_unfullscreen", NoDisplay, 0)

\* mutant: leave_fullscreen leaves priv->fullscreen_monitor as it is
leave_fullscreen_keeps_monitor(s) ==
    LET s0 == [s EXCEPT !.map_handlers = 0]
    IN  IF ~s0.fullscreen
        THEN s0
        ELSE LET s1 == [s0 EXCEPT !.fullscreen = FALSE]
                 s2 == IF s1.display # NoDisplay
                       THEN virt_viewer_display_set_fullscreen(
                                virt_viewer_display_set_monitor(s1, s1.display, -1),
                                s1.display, FALSE)
                       ELSE s1
                 s3 == Call(s2, "force_reveal", NoDisplay, 0)
                 s4 == Call(s3, "headerbar_hide", NoDisplay, 0)
                 s5 == Call(s4, "set_size_request", NoDisplay, -1)
             IN  Call([s5 EXCEPT !.win_fullscreen = FALSE],
                      "gtk_window_unfullscreen", NoDisplay, 0)

\* mutant: leave_fullscreen does not disconnect the mapped handler
leave_fullscreen_keeps_handler(s) ==
    IF ~s.fullscreen THEN s ELSE leave_fullscreen_effects(s)

\* mutant: leave_fullscreen does not tell the display
leave_fullscreen_silent(s) ==
    LET s0 == [s EXCEPT !.map_handlers = 0]
    IN  IF ~s0.fullscreen
        THEN s0
        ELSE LET s1 == [s0 EXCEPT !.fullscreen = FALSE, !.fullscreen_monitor = -1]
                 s3 == Call(s1, "force_reveal", NoDisplay, 0)
                 s4 == Call(s3, "headerbar_hide", NoDisplay, 0)
                 s5 == Call(s4, "set_size_request", NoDisplay, -1)
             IN  Call([s5 EXCEPT !.win_fullscreen = FALSE],
                      "gtk_window_unfullscreen", NoDisplay, 0)

\* mutant: leave_fullscreen does not test priv->fullscreen
leave_fullscreen_untested(s) ==
    leave_fullscreen_effects([s EXCEPT !.map_handlers = 0])

\* virt_viewer_window_leave_fullscreen
virt_viewer_window_leave_fullscreen(s) ==
    LET s0 == [s EXCEPT !.map_handlers = 0]
    IN  IF ~s0.fullscreen THEN s0 ELSE leave_fullscreen_effects(s0)

\* mutant: the display is notified before the window is mapped
enter_fullscreen_no_defer(s, monitor) ==
    LET s1 == IF s.fullscreen /\ s.fullscreen_monitor # monitor
              THEN virt_viewer_window_leave_fullscreen(s)
              ELSE s
    IN  IF s1.fullscreen
        THEN s1
        ELSE LET s2 == [s1 EXCEPT !.fullscreen_monitor = monitor, !.fullscreen = TRUE]
                 s3 == Call(Call(s2, "headerbar_show", NoDisplay, 0), "force_reveal", NoDisplay, 1)
                 s4 == IF s3.display # NoDisplay
                       THEN virt_viewer_display_set_fullscreen(
                                virt_viewer_display_set_monitor(s3, s3.display, monitor),
                                s3.display, TRUE)
                       ELSE s3
                 s5 == virt_viewer_window_move_to_monitor(s4)
             IN  Call([s5 EXCEPT !.win_fullscreen = TRUE], "gtk_window_fullscreen", NoDisplay, 0)

\* mutant: a change of monitor does not leave fullscreen first
enter_fullscreen_no_leave(s, monitor) ==
    IF s.fullscreen /\ s.fullscreen_monitor = monitor
    THEN s
    ELSE LET s2 == [s EXCEPT !.fullscreen_monitor = monitor, !.fullscreen = TRUE]
         IN  IF ~gtk_widget_get_mapped(s2)
             THEN [virt_viewer_window_move_to_monitor(s2) EXCEPT !.map_handlers = 1]
             ELSE LET s3 == Call(Call(s2, "headerbar_show", NoDisplay, 0), "force_reveal", NoDisplay, 1)
                      s4 == IF s3.display # NoDisplay
                            THEN virt_viewer_display_set_fullscreen(
                                     virt_viewer_display_set_monitor(s3, s3.display, monitor),
                                     s3.display, TRUE)
                            ELSE s3
                      s5 == virt_viewer_window_move_to_monitor(s4)
                  IN  Call([s5 EXCEPT !.win_fullscreen = TRUE], "gtk_window_fullscreen", NoDisplay, 0)

\* mutant: enter_fullscreen does not return when already fullscreen on the
\* monitor asked for
enter_fullscreen_again(s, monitor) ==
    LET s1 == IF s.fullscreen /\ s.fullscreen_monitor # monitor
              THEN virt_viewer_window_leave_fullscreen(s)
              ELSE s
        s2 == [s1 EXCEPT !.fullscreen_monitor = monitor, !.fullscreen = TRUE]
    IN  IF ~gtk_widget_get_mapped(s2)
        THEN [virt_viewer_window_move_to_monitor(s2)
                  EXCEPT !.map_handlers = @ + 1]
        ELSE LET s3 == Call(Call(s2, "headerbar_show", NoDisplay, 0), "force_reveal", NoDisplay, 1)
                 s4 == IF s3.display # NoDisplay
                       THEN virt_viewer_display_set_fullscreen(
                                virt_viewer_display_set_monitor(s3, s3.display, monitor),
                                s3.display, TRUE)
                       ELSE s3
                 s5 == virt_viewer_window_move_to_monitor(s4)
             IN  Call([s5 EXCEPT !.win_fullscreen = TRUE], "gtk_window_fullscreen", NoDisplay, 0)

\* virt_viewer_window_enter_fullscreen
virt_viewer_window_enter_fullscreen(s, monitor) ==
    LET s1 == IF s.fullscreen /\ s.fullscreen_monitor # monitor
              THEN virt_viewer_window_leave_fullscreen(s)
              ELSE s
    IN  IF s1.fullscreen
        THEN s1
        ELSE LET s2 == [s1 EXCEPT !.fullscreen_monitor = monitor, !.fullscreen = TRUE]
             IN  IF ~gtk_widget_get_mapped(s2)
                 THEN [virt_viewer_window_move_to_monitor(s2)
                           EXCEPT !.map_handlers = @ + 1]
                 ELSE LET s3 == Call(Call(s2, "headerbar_show", NoDisplay, 0), "force_reveal", NoDisplay, 1)
                          s4 == IF s3.display # NoDisplay
                                THEN virt_viewer_display_set_fullscreen(
                                         virt_viewer_display_set_monitor(s3, s3.display, monitor),
                                         s3.display, TRUE)
                                ELSE s3
                          s5 == virt_viewer_window_move_to_monitor(s4)
                      IN  Call([s5 EXCEPT !.win_fullscreen = TRUE], "gtk_window_fullscreen", NoDisplay, 0)

\* mutant: the handler enters fullscreen on the default monitor instead of
\* the monitor recorded by the deferred entry
mapped_default_monitor(s) ==
    virt_viewer_window_enter_fullscreen(
        [s EXCEPT !.map_handlers = 0, !.fullscreen = FALSE], -1)

\* mutant: the handler does not disconnect itself
mapped_no_disconnect(s) ==
    virt_viewer_window_enter_fullscreen([s EXCEPT !.fullscreen = FALSE],
                                        s.fullscreen_monitor)

\* mapped: the one-shot "map-event" handler
mapped(s) ==
    LET s1 == [s EXCEPT !.map_handlers = 0, !.fullscreen = FALSE]
    IN  virt_viewer_window_enter_fullscreen(s1, s1.fullscreen_monitor)

\* mutant: set_fullscreen(FALSE) leaves fullscreen whatever the fullscreen
\* mode of the application
set_fullscreen_ignores_app(s, fs) ==
    IF fs
    THEN virt_viewer_window_enter_fullscreen(s, -1)
    ELSE virt_viewer_window_leave_fullscreen(s)

\* virt_viewer_window_set_fullscreen
virt_viewer_window_set_fullscreen(s, fs) ==
    IF fs
    THEN virt_viewer_window_enter_fullscreen(s, -1)
    ELSE IF s.app_fullscreen
         THEN Call([s EXCEPT !.app_fullscreen = FALSE], "app_set_fullscreen", NoDisplay, 0)
         ELSE virt_viewer_window_leave_fullscreen(s)

\* virt_viewer_window_menu_view_fullscreen
virt_viewer_window_menu_view_fullscreen(s) ==
    virt_viewer_window_set_fullscreen(s, ~s.fullscreen)


(***************************************************************************)
(* Zoom level.                                                             *)
(***************************************************************************)
Max(a, b) == IF a >= b THEN a ELSE b
Min(a, b) == IF a <= b THEN a ELSE b
\* glib's CLAMP(x, low, high)
CLAMP(x, low, high) == IF x > high THEN high ELSE IF x < low THEN low ELSE x
\* mutant: the ratio is truncated instead of rounded up
Ceil10_truncated(a, b) == (10 * a) \div b

\* ceil(10 * (double) a / b) for a >= 0, b > 0
Ceil10(a, b) == (10 * a + b - 1) \div b

\* virt_viewer_window_get_minimal_dimensions: <<width, height>>
virt_viewer_window_get_minimal_dimensions(s) ==
    <<Max(MIN_DISPLAY_WIDTH, s.top_menu_width), MIN_DISPLAY_HEIGHT>>

\* the arithmetic of virt_viewer_window_get_minimal_zoom_level: ceil is
\* monotone, so the ceiling of the larger ratio is the larger ceiling
MinimalZoom(min_width, min_height, width, height) ==
    LET zoom == Max(Ceil10(min_width, width), Ceil10(min_height, height))
    IN  CLAMP(zoom * ZOOM_STEP, MIN_ZOOM_LEVEL, NORMAL_ZOOM_LEVEL)

\* virt_viewer_window_get_minimal_zoom_level (priv->display is not NULL)
virt_viewer_window_get_minimal_zoom_level(s) ==
    LET min == virt_viewer_window_get_minimal_dimensions(s)
        size == s.d_size[s.display]
    IN  MinimalZoom(min[1], min[2], size[1], size[2])

\* round((double) NORMAL_ZOOM_LEVEL * alloc / width), halves away from zero
RealZoom(alloc, width) == (2 * NORMAL_ZOOM_LEVEL * alloc + width) \div (2 * width)

\* virt_viewer_window_get_real_zoom_level; the allocation of the display
\* widget is what GTK reports during this entry point
virt_viewer_window_get_real_zoom_level(s) ==
    IF s.display = NoDisplay
    THEN NORMAL_ZOOM_LEVEL
    ELSE RealZoom(s.last.alloc, s.d_size[s.display][1])

\* gtk_widget_get_allocation of the display widget, as called by
\* virt_viewer_window_get_real_zoom_level: the read is recorded
get_allocation(s) ==
    IF s.display = NoDisplay
    THEN s
    ELSE Call(s, "get_allocation", s.display, s.last.alloc)

\* virt_viewer_display_set_zoom_level
virt_viewer_display_set_zoom_level(s, d, zoom) ==
    Call([s EXCEPT !.d_zoom[d] = zoom], "set_zoom_level", d, zoom)

\* mutant: a window without display is resized all the same
set_zoom_level_resizes(s, zoom_level) ==
    LET z1 == IF zoom_level < MIN_ZOOM_LEVEL THEN MIN_ZOOM_LEVEL ELSE zoom_level
        z2 == IF z1 > MAX_ZOOM_LEVEL THEN MAX_ZOOM_LEVEL ELSE z1
        s1 == [s EXCEPT !.zoomlevel = z2]
    IN  IF s1.display = NoDisplay
        THEN virt_viewer_window_queue_resize(s1)
        ELSE LET min_zoom == virt_viewer_window_get_minimal_zoom_level(s1)
                 s2 == IF min_zoom > s1.zoomlevel
                       THEN [s1 EXCEPT !.zoomlevel = min_zoom]
                       ELSE s1
                 s3 == IF s2.zoomlevel = s2.d_zoom[s2.display]
                       THEN get_allocation(s2)
                       ELSE s2
             IN  IF /\ s3.zoomlevel = s3.d_zoom[s3.display]
                    /\ s3.zoomlevel = virt_viewer_window_get_real_zoom_level(s3)
                 THEN s3
                 ELSE virt_viewer_window_queue_resize(
                          virt_viewer_display_set_zoom_level(s3, s3.display, s3.zoomlevel))

\* mutant: the observed zoom level of the window is not compared
set_zoom_level_ignores_real(s, zoom_level) ==
    LET z1 == IF zoom_level < MIN_ZOOM_LEVEL THEN MIN_ZOOM_LEVEL ELSE zoom_level
        z2 == IF z1 > MAX_ZOOM_LEVEL THEN MAX_ZOOM_LEVEL ELSE z1
        s1 == [s EXCEPT !.zoomlevel = z2]
    IN  IF s1.display = NoDisplay
        THEN s1
        ELSE LET min_zoom == virt_viewer_window_get_minimal_zoom_level(s1)
                 s2 == IF min_zoom > s1.zoomlevel
                       THEN [s1 EXCEPT !.zoomlevel = min_zoom]
                       ELSE s1
             IN  IF s2.zoomlevel = s2.d_zoom[s2.display]
                 THEN s2
                 ELSE virt_viewer_window_queue_resize(
                          virt_viewer_display_set_zoom_level(s2, s2.display, s2.zoomlevel))

\* mutant: the request is not clamped from below
set_zoom_level_no_min(s, zoom_level) ==
    LET z2 == IF zoom_level > MAX_ZOOM_LEVEL THEN MAX_ZOOM_LEVEL ELSE zoom_level
        s1 == [s EXCEPT !.zoomlevel = z2]
    IN  IF s1.display = NoDisplay
        THEN s1
        ELSE LET min_zoom == virt_viewer_window_get_minimal_zoom_level(s1)
                 s2 == IF min_zoom > s1.zoomlevel
                       THEN [s1 EXCEPT !.zoomlevel = min_zoom]
                       ELSE s1
                 s3 == IF s2.zoomlevel = s2.d_zoom[s2.display]
                       THEN get_allocation(s2)
                       ELSE s2
             IN  IF /\ s3.zoomlevel = s3.d_zoom[s3.display]
                    /\ s3.zoomlevel = virt_viewer_window_get_real_zoom_level(s3)
                 THEN s3
                 ELSE virt_viewer_window_queue_resize(
                          virt_viewer_display_set_zoom_level(s3, s3.display, s3.zoomlevel))

\* mutant: the request is not clamped from above
set_zoom_level_no_max(s, zoom_level) ==
    LET z1 == IF zoom_level < MIN_ZOOM_LEVEL THEN MIN_ZOOM_LEVEL ELSE zoom_level
        s1 == [s EXCEPT !.zoomlevel = z1]
    IN  IF s1.display = NoDisplay
        THEN s1
        ELSE LET min_zoom == virt_viewer_window_get_minimal_zoom_level(s1)
                 s2 == IF min_zoom > s1.zoomlevel
                       THEN [s1 EXCEPT !.zoomlevel = min_zoom]
                       ELSE s1
                 \* && evaluates the real zoom level only if the first test holds
                 s3 == IF s2.zoomlevel = s2.d_zoom[s2.display]
                       THEN get_allocation(s2)
                       ELSE s2
             IN  IF /\ s3.zoomlevel = s3.d_zoom[s3.display]
                    /\ s3.zoomlevel = virt_viewer_window_get_real_zoom_level(s3)
                 THEN s3
                 ELSE virt_viewer_window_queue_resize(
                          virt_viewer_display_set_zoom_level(s3, s3.display, s3.zoomlevel))

\* virt_viewer_window_set_zoom_level
virt_viewer_window_set_zoom_level(s, zoom_level) ==
    LET z1 == IF zoom_level < MIN_ZOOM_LEVEL THEN MIN_ZOOM_LEVEL ELSE zoom_level
        z2 == IF z1 > MAX_ZOOM_LEVEL THEN MAX_ZOOM_LEVEL ELSE z1
        s1 == [s EXCEPT !.zoomlevel = z2]
    IN  IF s1.display = NoDisplay
        THEN s1
        ELSE LET min_zoom == virt_viewer_window_get_minimal_zoom_level(s1)
                 s2 == IF min_zoom > s1.zoomlevel
                       THEN [s1 EXCEPT !.zoomlevel = min_zoom]
                       ELSE s1
                 \* && evaluates the real zoom level only if the first test holds
                 s3 == IF s2.zoomlevel = s2.d_zoom[s2.display]
                       THEN get_allocation(s2)
                       ELSE s2
             IN  IF /\ s3.zoomlevel = s3.d_zoom[s3.display]
                    /\ s3.zoomlevel = virt_viewer_window_get_real_zoom_level(s3)
                 THEN s3
                 ELSE virt_viewer_window_queue_resize(
                          virt_viewer_display_set_zoom_level(s3, s3.display, s3.zoomlevel))

\* mutant: the zoom level is pushed on every show-hint notification
display_show_hint_always(s, d) ==
    virt_viewer_window_set_zoom_level([s EXCEPT !.initial_zoom_set = TRUE], s.zoomlevel)

\* display_show_hint: the "notify::show-hint" handler, d the emitting display
display_show_hint(s, d) ==
    IF ~s.initial_zoom_set /\ s.d_ready[d] /\ s.d_enabled[d]
    THEN virt_viewer_window_set_zoom_level([s EXCEPT !.initial_zoom_set = TRUE],
                                           s.zoomlevel)
    ELSE s

\* virt_viewer_window_desktop_resize: the "display-desktop-resize" handler
virt_viewer_window_desktop_resize(s) ==
    IF ~gtk_widget_get_visible(s)
    THEN [s EXCEPT !.desktop_resize_pending = TRUE]
    ELSE virt_viewer_window_queue_resize(s)

\* zoom_in_activated
zoom_in_activated(s) ==
    virt_viewer_window_set_zoom_level(get_allocation(s),
        virt_viewer_window_get_real_zoom_level(s) + ZOOM_STEP)

\* zoom_out_activated
zoom_out_activated(s) ==
    virt_viewer_window_set_zoom_level(get_allocation(s),
        virt_viewer_window_get_real_zoom_level(s) - ZOOM_STEP)

\* zoom_reset_activated
zoom_reset_activated(s) ==
    virt_viewer_window_set_zoom_level(s, NORMAL_ZOOM_LEVEL)

(***************************************************************************)
(* Accelerators.                                                           *)
(***************************************************************************)
\* the groups of priv->accel_list the loops of disable/enable_modifiers act on
AccelsToToggle(s) ==
    {g \in AccelList : ~(s.enable_accel /\ g = accel_group)}

\* mutant: disable_modifiers without the test of priv->accel_enabled
disable_modifiers_unguarded(s) ==
    [Call(s, "set_menu_bar_accel", NoDisplay, 0)
        EXCEPT !.accel_setting = s.menu_bar_accel,
               !.menu_bar_accel = "",
               !.win_accel_groups = @ \ AccelsToToggle(s),
               !.enable_mnemonics_save = s.enable_mnemonics,
               !.enable_mnemonics = FALSE,
               !.accel_enabled = FALSE]

\* virt_viewer_window_disable_modifiers
virt_viewer_window_disable_modifiers(s) ==
    IF ~s.accel_enabled
    THEN s
    ELSE [Call(s, "set_menu_bar_accel", NoDisplay, 0)
             EXCEPT !.accel_setting = s.menu_bar_accel,
                   !.menu_bar_accel = "",
                   !.win_accel_groups = @ \ AccelsToToggle(s),
                   !.enable_mnemonics_save = s.enable_mnemonics,
                   !.enable_mnemonics = FALSE,
                   !.accel_enabled = FALSE]

\* virt_viewer_window_enable_modifiers
virt_viewer_window_enable_modifiers(s) ==
    IF s.accel_enabled
    THEN s
    ELSE [Call(s, "set_menu_bar_accel", NoDisplay, 1)
             EXCEPT !.menu_bar_accel = s.accel_setting,
                   !.win_accel_groups = @ \cup AccelsToToggle(s),
                   !.enable_mnemonics = s.enable_mnemonics_save,
                   !.accel_enabled = TRUE]

\* virt_viewer_window_pointer_grab
virt_viewer_window_pointer_grab(s) == [s EXCEPT !.grabbed = TRUE]

\* mutant: the release of the pointer re-enables the modifiers
pointer_ungrab_enables(s) ==
    virt_viewer_window_enable_modifiers([s EXCEPT !.grabbed = FALSE])

\* virt_viewer_window_pointer_ungrab
virt_viewer_window_pointer_ungrab(s) == [s EXCEPT !.grabbed = FALSE]

\* virt_viewer_window_keyboard_grab
virt_viewer_window_keyboard_grab(s) == virt_viewer_window_disable_modifiers(s)

\* virt_viewer_window_keyboard_ungrab
virt_viewer_window_keyboard_ungrab(s) == virt_viewer_window_enable_modifiers(s)

\* virt_viewer_window_enable_kiosk
virt_viewer_window_enable_kiosk(s) ==
    virt_viewer_window_disable_modifiers(Call(s, "force_reveal", NoDisplay, 0))

\* virt_viewer_window_set_kiosk
virt_viewer_window_set_kiosk(s, enabled) ==
    IF s.kiosk = enabled
    THEN s
    ELSE LET s1 == [s EXCEPT !.kiosk = enabled]
         IN  IF enabled THEN virt_viewer_window_enable_kiosk(s1) ELSE s1

(***************************************************************************)
(* Display attachment, show and hide.                                      *)
(***************************************************************************)
\* the virt_viewer_signal_connect_object calls of virt_viewer_window_set_display:
\* one more handler on each signal of the display and on "key-press-event"
virt_viewer_signal_connect_object(s, d) ==
    [s EXCEPT !.connected = Append(@, d)]

\* mutant: the display attached before is not released
set_display_no_release(s, d) ==
    IF d = NoDisplay
    THEN [s EXCEPT !.display = NoDisplay]
    ELSE LET s2 == [s EXCEPT !.display = d]
             s3 == virt_viewer_display_set_monitor(s2, d, s2.fullscreen_monitor)
             s4 == virt_viewer_display_set_fullscreen(s3, d, s3.fullscreen)
             s5 == virt_viewer_signal_connect_object(s4, d)
             s6 == display_show_hint(s5, d)
             s7 == IF s6.d_enabled[d]
                   THEN virt_viewer_window_desktop_resize(s6)
                   ELSE s6
         IN  [s7 EXCEPT !.gear_entries = TRUE]

\* mutant: the fullscreen state of the window is not passed to the display
set_display_no_propagate(s, d) ==
    LET s1 == IF s.display # NoDisplay
              THEN Call([s EXCEPT !.display = NoDisplay], "remove_page", s.display, 1)
              ELSE s
    IN  IF d = NoDisplay
        THEN s1
        ELSE LET s2 == [s1 EXCEPT !.display = d]
                 s5 == virt_viewer_signal_connect_object(s2, d)
                 s6 == display_show_hint(s5, d)
                 s7 == IF s6.d_enabled[d]
                       THEN virt_viewer_window_desktop_resize(s6)
                       ELSE s6
             IN  [s7 EXCEPT !.gear_entries = TRUE]

\* mutant: attaching a display clears priv->initial_zoom_set
set_display_resets_initial_zoom(s, d) ==
    LET s1 == IF s.display # NoDisplay
              THEN Call([s EXCEPT !.display = NoDisplay], "remove_page", s.display, 1)
              ELSE s
    IN  IF d = NoDisplay
        THEN s1
        ELSE LET s2 == [s1 EXCEPT !.display = d, !.initial_zoom_set = FALSE]
                 s3 == virt_viewer_display_set_monitor(s2, d, s2.fullscreen_monitor)
                 s4 == virt_viewer_display_set_fullscreen(s3, d, s3.fullscreen)
                 s5 == virt_viewer_signal_connect_object(s4, d)
                 s6 == display_show_hint(s5, d)
                 s7 == IF s6.d_enabled[d]
                       THEN virt_viewer_window_desktop_resize(s6)
                       ELSE s6
             IN  [s7 EXCEPT !.gear_entries = TRUE]

\* virt_viewer_window_set_display
virt_viewer_window_set_display(s, d) ==
    LET s1 == IF s.display # NoDisplay
              THEN Call([s EXCEPT !.display = NoDisplay], "remove_page", s.display, 1)
              ELSE s
    IN  IF d = NoDisplay
        THEN s1
        ELSE LET s2 == [s1 EXCEPT !.display = d]
                 s3 == virt_viewer_display_set_monitor(s2, d, s2.fullscreen_monitor)
                 s4 == virt_viewer_display_set_fullscreen(s3, d, s3.fullscreen)
                 s5 == virt_viewer_signal_connect_object(s4, d)
                 s6 == display_show_hint(s5, d)
                 s7 == IF s6.d_enabled[d]
                       THEN virt_viewer_window_desktop_resize(s6)
                       ELSE s6
             IN  [s7 EXCEPT !.gear_entries = TRUE]

\* mutant: show leaves desktop_resize_pending set after the deferred resize
show_keeps_pending(s) ==
    LET s1 == IF s.display # NoDisplay /\ ~s.d_enabled[s.display]
              THEN Call([s EXCEPT !.d_enabled[s.display] = TRUE], "enable", s.display, 0)
              ELSE s
        s2 == IF s1.desktop_resize_pending
              THEN virt_viewer_window_queue_resize(s1)
              ELSE s1
        s3 == [s2 EXCEPT !.visible = TRUE, !.ever_mapped = TRUE,
                         !.map_event_pending = @ \/ ~s2.visible]
        s4 == IF s3.kiosk THEN virt_viewer_window_enable_kiosk(s3) ELSE s3
    IN  IF s4.fullscreen THEN virt_viewer_window_move_to_monitor(s4) ELSE s4

\* virt_viewer_window_show
virt_viewer_window_show(s) ==
    LET s1 == IF s.display # NoDisplay /\ ~s.d_enabled[s.display]
              THEN Call([s EXCEPT !.d_enabled[s.display] = TRUE], "enable", s.display, 0)
              ELSE s
        s2 == IF s1.desktop_resize_pending
              THEN [virt_viewer_window_queue_resize(s1) EXCEPT !.desktop_resize_pending = FALSE]
              ELSE s1
        \* gtk_widget_show: a window that was not mapped is mapped, and its
        \* map-event is queued
        s3 == [s2 EXCEPT !.visible = TRUE, !.ever_mapped = TRUE,
                         !.map_event_pending = @ \/ ~s2.visible]
        s4 == IF s3.kiosk THEN virt_viewer_window_enable_kiosk(s3) ELSE s3
    IN  IF s4.fullscreen THEN virt_viewer_window_move_to_monitor(s4) ELSE s4

\* mutant: hide does not look at priv->kiosk
hide_in_kiosk(s) ==
    LET s1 == [s EXCEPT !.visible = FALSE]
    IN  IF s1.display # NoDisplay
        THEN Call([s1 EXCEPT !.d_enabled[s1.display] = FALSE], "disable", s1.display, 0)
        ELSE s1

\* virt_viewer_window_hide
virt_viewer_window_hide(s) ==
    IF s.kiosk
    THEN s
    ELSE LET s1 == [s EXCEPT !.visible = FALSE]
         IN  IF s1.display # NoDisplay
             THEN Call([s1 EXCEPT !.d_enabled[s1.display] = FALSE], "disable", s1.display, 0)
             ELSE s1

\* the handler the window connects to signal sig of display d
Handler(sig, s, d) ==
    CASE sig = "pointer_grab" -> virt_viewer_window_pointer_grab(s)
      [] sig = "pointer_ungrab" -> virt_viewer_window_pointer_ungrab(s)
      [] sig = "keyboard_grab" -> virt_viewer_window_keyboard_grab(s)
      [] sig = "keyboard_ungrab" -> virt_viewer_window_keyboard_ungrab(s)
      [] sig = "desktop_resize" -> virt_viewer_window_desktop_resize(s)
      [] sig = "show_hint" -> display_show_hint(s, d)

\* signal sig of display d is emitted: the handler runs once for each
\* connection made by virt_viewer_window_set_display(d)
Emit(sig, s, d) ==
    LET n == Subs(s.connected, d)
        f[k \in 0..n] == IF k = 0 THEN s ELSE Handler(sig, f[k - 1], d)
    IN  f[n]

(***************************************************************************)
(* The state after virt_viewer_window_init, with the displays of the       *)
(* session not yet attached to the window.                                 *)
(***************************************************************************)
NoOp == [op |-> "init", args |-> <<>>, alloc |-> 0, prev_op |-> "", prev_args |-> <<>>]

Init ==
    /\ display = NoDisplay
    /\ accel_enabled = TRUE
    /\ accel_setting = ""
    /\ enable_mnemonics_save = FALSE
    /\ grabbed = FALSE
    /\ fullscreen_monitor = -1
    /\ desktop_resize_pending = FALSE
    /\ kiosk = FALSE
    /\ zoomlevel = NORMAL_ZOOM_LEVEL
    /\ fullscreen = FALSE
    /\ initial_zoom_set = FALSE
    /\ visible = FALSE
    /\ map_handlers = 0
    /\ map_event_pending = FALSE
    /\ ever_mapped = FALSE
    /\ win_fullscreen = FALSE
    /\ win_accel_groups = AccelList
    /\ gear_entries = FALSE
    /\ connected = <<>>
    /\ menu_bar_accel \in MenuBarAccels
    /\ enable_mnemonics \in BOOLEAN
    /\ top_menu_width \in TopMenuWidths
    /\ app_fullscreen = FALSE
    /\ enable_accel \in BOOLEAN
    /\ d_monitor = [d \in Displays |-> -1]
    /\ d_fullscreen = [d \in Displays |-> FALSE]
    /\ d_zoom = [d \in Displays |-> NORMAL_ZOOM_LEVEL]
    /\ d_enabled = [d \in Displays |-> FALSE]
    /\ d_ready = [d \in Displays |-> FALSE]
    /\ d_size \in [Displays -> DesktopSizes]
    /\ calls = <<>>
    /\ last = NoOp

\* the entry point has returned: an allocation that was not read is not
\* part of the observation
Finish(s) ==
    Commit(IF CallsTo(s.calls, "get_allocation") = <<>>
           THEN [s EXCEPT !.last.alloc = 0]
           ELSE s)

(***************************************************************************)
(* Entry points of the window.                                             *)
(***************************************************************************)
EnterFullscreen(m) ==
    /\ m \in Monitors
    /\ Finish(virt_viewer_window_enter_fullscreen(Begin("enter_fullscreen", <<m>>, 0), m))

LeaveFullscreen ==
    /\ TRUE
    /\ Finish(virt_viewer_window_leave_fullscreen(Begin("leave_fullscreen", <<>>, 0)))

\* the "fullscreen" button and menu entry
ToggleFullscreen ==
    /\ TRUE
    /\ Finish(virt_viewer_window_menu_view_fullscreen(Begin("menu_view_fullscreen", <<>>, 0)))

\* the queued map-event of the window is delivered: GTK delivers it also to
\* a window that was hidden in the meantime.  With no handler connected
\* nothing runs.
MapEvent ==
    /\ map_event_pending
    /\ LET s0 == [Begin("map_event", <<>>, 0) EXCEPT !.map_event_pending = FALSE]
       IN  Finish(IF s0.map_handlers > 0
                  THEN mapped(Call(s0, "mapped", NoDisplay, 0))
                  ELSE s0)

Show ==
    /\ TRUE
    /\ Finish(virt_viewer_window_show(Begin("show", <<>>, 0)))

Hide ==
    /\ TRUE
    /\ Finish(virt_viewer_window_hide(Begin("hide", <<>>, 0)))

SetDisplay(d, a) ==
    /\ d # NoDisplay => Subs(connected, d) < MaxSubs
    /\ Finish(virt_viewer_window_set_display(Begin("set_display", <<d>>, a), d))

SetZoomLevel(z, a) ==
    /\ a \in AllocWidths
    /\ Finish(virt_viewer_window_set_zoom_level(Begin("set_zoom_level", <<z>>, a), z))

\* the gear menu entries exist once a display has been attached
ZoomIn(a) ==
    /\ gear_entries
    /\ Finish(zoom_in_activated(Begin("zoom_in", <<>>, a)))

ZoomOut(a) ==
    /\ gear_entries
    /\ Finish(zoom_out_activated(Begin("zoom_out", <<>>, a)))

ZoomReset(a) ==
    /\ gear_entries
    /\ Finish(zoom_reset_activated(Begin("zoom_reset", <<>>, a)))

SetKiosk(b) ==
    /\ b \in BOOLEAN
    /\ Finish(virt_viewer_window_set_kiosk(Begin("set_kiosk", <<Bool2Int(b)>>, 0), b))

(***************************************************************************)
(* Signals of the displays.  A display the window has never connected to   *)
(* has no handler to run.                                                  *)
(***************************************************************************)
DisplayPointerGrab(d) ==
    /\ Subs(connected, d) > 0
    /\ Finish(Emit("pointer_grab", Begin("pointer_grab", <<d>>, 0), d))

DisplayPointerUngrab(d) ==
    /\ Subs(connected, d) > 0
    /\ Finish(Emit("pointer_ungrab", Begin("pointer_ungrab", <<d>>, 0), d))

DisplayKeyboardGrab(d) ==
    /\ Subs(connected, d) > 0
    /\ Finish(Emit("keyboard_grab", Begin("keyboard_grab", <<d>>, 0), d))

DisplayKeyboardUngrab(d) ==
    /\ Subs(connected, d) > 0
    /\ Finish(Emit("keyboard_ungrab", Begin("keyboard_ungrab", <<d>>, 0), d))

\* the guest changes its resolution: "display-desktop-resize"
DisplayDesktopResize(d, size) ==
    /\ size # d_size[d]
    /\ Finish(Emit("desktop_resize",
                   [Begin("desktop_resize", <<d>>, 0) EXCEPT !.d_size[d] = size], d))

\* the show-hint of a display changes, its READY bit becoming r:
\* "notify::show-hint"
DisplayShowHint(d, r, a) ==
    /\ d \in Displays
    /\ Finish(Emit("show_hint", [Begin("show_hint", <<d, Bool2Int(r)>>, a)
                                     EXCEPT !.d_ready[d] = r], d))

\* a key is pressed in the window: the "key-press-event" handlers run in the
\* order of their connection until one of them reports the event handled
KeyPress(n) ==
    /\ n \in 1..Len(connected)
    /\ LET f[k \in 0..n] ==
               IF k = 0 THEN Begin("key_press", <<n>>, 0)
               ELSE Call(f[k - 1], "window_key_pressed", connected[k], 0)
       IN  Finish(f[n])

(***************************************************************************)
(* The application.                                                        *)
(***************************************************************************)
AppSetFullscreen(b) ==
    /\ app_fullscreen # b
    /\ Finish([Begin("app_fullscreen", <<Bool2Int(b)>>, 0) EXCEPT !.app_fullscreen = b])

AppSetEnableAccel(b) ==
    /\ enable_accel # b
    /\ Finish([Begin("app_enable_accel", <<Bool2Int(b)>>, 0) EXCEPT !.enable_accel = b])

(***************************************************************************)
(* Specifications.  Each one runs the entry points of one part of the      *)
(* window together with show, hide and set_display.                        *)
(***************************************************************************)
\* the display of the specifications that attach a single display
OneDisplay == {1}
\* the allocation reported in the specifications that never read it
AnyAlloc == {1}

\* the layout of the specifications that leave the zoom level alone, and the
\* settings of those that leave the accelerators alone
InitFullscreen ==
    /\ Init
    /\ top_menu_width = 200
    /\ d_size = [d \in Displays |-> <<550, 400>>]
    /\ menu_bar_accel = "F10"
    /\ enable_mnemonics = TRUE
    /\ enable_accel = TRUE

InitZoom ==
    /\ Init
    /\ \A d \in Displays \ OneDisplay : d_size[d] = <<550, 400>>
    /\ menu_bar_accel = "F10"
    /\ enable_mnemonics = TRUE
    /\ enable_accel = TRUE

InitAccel ==
    /\ Init
    /\ top_menu_width = 200
    /\ d_size = [d \in Displays |-> <<550, 400>>]

InitAttach ==
    /\ Init
    /\ top_menu_width = 200
    /\ d_size = [d \in Displays |-> <<550, 400>>]
    /\ menu_bar_accel = "F10"
    /\ enable_mnemonics = TRUE
    /\ enable_accel = TRUE

\* fullscreen transitions of a window with at most one display
NextFullscreen ==
    \/ \E m \in Monitors : EnterFullscreen(m)
    \/ LeaveFullscreen
    \/ ToggleFullscreen
    \/ \E b \in BOOLEAN : AppSetFullscreen(b)
    \/ MapEvent
    \/ Show
    \/ Hide
    \/ \E d \in OneDisplay \cup {NoDisplay}, a \in AnyAlloc : SetDisplay(d, a)

SpecFullscreen == InitFullscreen /\ [][NextFullscreen]_vars

\* the fullscreen transitions under the main loop of GTK, which delivers
\* every queued map-event
\* the monitors of the deferred entries: the default one and a given one
DeferredMonitors == {-1, 1}

\* deferred entries of a window with at most one display
NextDeferred ==
    \/ \E m \in DeferredMonitors : EnterFullscreen(m)
    \/ LeaveFullscreen
    \/ MapEvent
    \/ Show
    \/ Hide
    \/ \E d \in OneDisplay \cup {NoDisplay}, a \in AnyAlloc : SetDisplay(d, a)

SpecFullscreenFair == InitFullscreen /\ [][NextDeferred]_vars /\ WF_vars(MapEvent)

\* zoom level of a window with at most one display
NextZoom ==
    \/ \E z \in ZoomRequests, a \in AllocWidths : SetZoomLevel(z, a)
    \/ \E a \in AllocWidths : ZoomIn(a)
    \/ \E a \in AllocWidths : ZoomOut(a)
    \/ \E a \in AllocWidths : ZoomReset(a)
    \/ \E d \in OneDisplay, size \in DesktopSizes : DisplayDesktopResize(d, size)
    \/ \E d \in OneDisplay, r \in BOOLEAN, a \in AllocWidths : DisplayShowHint(d, r, a)
    \/ Show
    \/ \E d \in OneDisplay \cup {NoDisplay}, a \in AllocWidths : SetDisplay(d, a)

SpecZoom == InitZoom /\ [][NextZoom]_vars

\* accelerators and kiosk mode of a window with at most one display
NextAccel ==
    \/ \E d \in OneDisplay : DisplayPointerGrab(d)
    \/ \E d \in OneDisplay : DisplayPointerUngrab(d)
    \/ \E d \in OneDisplay : DisplayKeyboardGrab(d)
    \/ \E d \in OneDisplay : DisplayKeyboardUngrab(d)
    \/ \E b \in BOOLEAN : SetKiosk(b)
    \/ \E b \in BOOLEAN : AppSetEnableAccel(b)
    \/ Show
    \/ Hide
    \/ \E d \in OneDisplay \cup {NoDisplay}, a \in AnyAlloc : SetDisplay(d, a)

SpecAccel == InitAccel /\ [][NextAccel]_vars

\* every entry point that could act on the modifiers, on a window with at
\* most one display and one monitor
InitModifiers ==
    /\ Init
    /\ top_menu_width = 200
    /\ d_size = [d \in Displays |-> <<550, 400>>]
    /\ menu_bar_accel = "F10"
    /\ enable_mnemonics = TRUE
    /\ enable_accel = TRUE

NextModifiers ==
    \/ \E d \in OneDisplay : DisplayPointerGrab(d)
    \/ \E d \in OneDisplay : DisplayPointerUngrab(d)
    \/ \E d \in OneDisplay : DisplayKeyboardGrab(d)
    \/ \E d \in OneDisplay : DisplayKeyboardUngrab(d)
    \/ \E b \in BOOLEAN : SetKiosk(b)
    \/ Show
    \/ Hide
    \/ \E d \in OneDisplay \cup {NoDisplay}, a \in AnyAlloc : SetDisplay(d, a)
    \/ \E m \in {0} : EnterFullscreen(m)
    \/ LeaveFullscreen
    \/ MapEvent

SpecModifiers == InitModifiers /\ [][NextModifiers]_vars

\* desktop-size changes of the display of a window that is shown and hidden
InitResize ==
    /\ Init
    /\ top_menu_width = 200
    /\ \A d \in Displays \ OneDisplay : d_size[d] = <<550, 400>>
    /\ menu_bar_accel = "F10"
    /\ enable_mnemonics = TRUE
    /\ enable_accel = TRUE

NextResize ==
    \/ \E d \in OneDisplay, size \in DesktopSizes : DisplayDesktopResize(d, size)
    \/ Show
    \/ Hide
    \/ \E b \in BOOLEAN : SetKiosk(b)
    \/ \E d \in OneDisplay \cup {NoDisplay}, a \in AnyAlloc : SetDisplay(d, a)

SpecResize == InitResize /\ [][NextResize]_vars

\* requests at and beyond the limits of the zoom level, and the desktop sizes
\* and minimal sizes the minimal zoom level is computed for
LimitRequests == {0, 10, 30, 400, 900}
FloorDesktopSizes ==
    {<<550, 400>>, <<100, 80>>, <<500, 500>>, <<40, 30>>, <<1920, 1080>>, <<640, 90>>}
FloorMinimalSizes == {<<50, 50>>, <<200, 50>>, <<200, 150>>, <<640, 50>>}

\* zoom requests on a window with at most one display, whose desktop takes
\* the sizes of FloorDesktopSizes
InitZoomRequest ==
    /\ Init
    /\ \A d \in Displays : d_size[d] = <<550, 400>>
    /\ menu_bar_accel = "F10"
    /\ enable_mnemonics = TRUE
    /\ enable_accel = TRUE

NextZoomRequest ==
    \/ \E z \in LimitRequests, a \in AllocWidths : SetZoomLevel(z, a)
    \/ \E d \in OneDisplay, size \in FloorDesktopSizes : DisplayDesktopResize(d, size)
    \/ \E d \in OneDisplay \cup {NoDisplay}, a \in AllocWidths : SetDisplay(d, a)

SpecZoomRequest == InitZoomRequest /\ [][NextZoomRequest]_vars

\* two displays attached in turn to a window that enters and leaves
\* fullscreen
TwoDisplays == {1, 2}

InitReattach ==
    /\ Init
    /\ top_menu_width = 200
    /\ d_size = [d \in Displays |-> <<550, 400>>]
    /\ menu_bar_accel = "F10"
    /\ enable_mnemonics = TRUE
    /\ enable_accel = TRUE

NextReattach ==
    \/ \E d \in TwoDisplays \cup {NoDisplay}, a \in AnyAlloc : SetDisplay(d, a)
    \/ \E m \in {-1, 1} : EnterFullscreen(m)
    \/ LeaveFullscreen
    \/ Show
    \/ Hide
    \/ MapEvent

SpecReattach == InitReattach /\ [][NextReattach]_vars

\* two displays attached in turn to a window whose zoom level is set, and
\* their show-hint notifications
OnceAllocs == {550}
OnceRequests == {200}

InitOnce ==
    /\ Init
    /\ top_menu_width = 200
    /\ d_size = [d \in Displays |-> <<550, 400>>]
    /\ menu_bar_accel = "F10"
    /\ enable_mnemonics = TRUE
    /\ enable_accel = TRUE

NextOnce ==
    \/ \E d \in TwoDisplays \cup {NoDisplay}, a \in OnceAllocs : SetDisplay(d, a)
    \/ \E d \in TwoDisplays, r \in BOOLEAN, a \in OnceAllocs : DisplayShowHint(d, r, a)
    \/ \E z \in OnceRequests, a \in OnceAllocs : SetZoomLevel(z, a)
    \/ Show

SpecOnce == InitOnce /\ [][NextOnce]_vars

\* attachment of the displays of the session, and their signals
NextAttach ==
    \/ \E d \in Displays \cup {NoDisplay}, a \in AnyAlloc : SetDisplay(d, a)
    \/ \E d \in Displays : DisplayPointerGrab(d)
    \/ \E d \in Displays : DisplayPointerUngrab(d)
    \/ \E d \in Displays : DisplayKeyboardGrab(d)
    \/ \E d \in Displays : DisplayKeyboardUngrab(d)
    \/ \E d \in Displays, size \in DesktopSizes : DisplayDesktopResize(d, size)
    \/ \E d \in Displays, r \in BOOLEAN, a \in AnyAlloc : DisplayShowHint(d, r, a)
    \/ \E n \in 1..(NumDisplays * MaxSubs) : KeyPress(n)

SpecAttach == InitAttach /\ [][NextAttach]_vars

(***************************************************************************)
(* Properties.                                                             *)
(***************************************************************************)
\* the calls of cs that set the monitor or the fullscreen flag of a display
SetterCalls(cs) ==
    SelectSeq(cs, LAMBDA c : c.f \in {"set_monitor", "set_fullscreen"})

\* cs holds a call of f with argument v
Called(cs, f, v) == \E i \in 1..Len(cs) : cs[i].f = f /\ cs[i].v = v

\* cs holds a call of f
CalledAny(cs, f) == \E i \in 1..Len(cs) : cs[i].f = f

\* no call of cs tells a display that the window is fullscreen, or a monitor
OnlyResets(cs) ==
    \A i \in 1..Len(cs) :
        /\ cs[i].f = "set_fullscreen" => cs[i].v = 0
        /\ cs[i].f = "set_monitor" => cs[i].v = -1

\* the step is leave_fullscreen right after enter_fullscreen, on a window
\* that has never been mapped
EnterThenLeaveUnmapped ==
    /\ last.op = "enter_fullscreen"
    /\ last'.op = "leave_fullscreen"
    /\ ~ever_mapped'

\* C1, as claimed: enter_fullscreen(m) immediately followed by
\* leave_fullscreen, on a window that has never been mapped, makes no call
\* of a display's set_monitor or set_fullscreen
C1_NoSetterCalls ==
    [][EnterThenLeaveUnmapped =>
          SetterCalls(calls) = <<>> /\ SetterCalls(calls') = <<>>]_vars

\* the two calls by which leave_fullscreen resets display d
ResetCalls(d) ==
    <<[f |-> "set_monitor", d |-> d, v |-> -1],
      [f |-> "set_fullscreen", d |-> d, v |-> 0]>>

\* C1, amended: enter_fullscreen(m) immediately followed by leave_fullscreen,
\* on a window that has never been mapped, never tells a display
\* fullscreen=TRUE or a monitor other than -1; with no display attached the
\* two make no setter call at all; with a display attached leave_fullscreen
\* tells it monitor -1 and fullscreen=FALSE, once each, and enter_fullscreen
\* makes no setter call unless it first left a fullscreen mode pending on
\* another monitor, in which case it made those same two calls: it makes
\* none right after leave_fullscreen, and it does leave right after
\* enter_fullscreen on another monitor
C1_OnlyResetCalls ==
    [][EnterThenLeaveUnmapped =>
          /\ OnlyResets(calls) /\ OnlyResets(calls')
          /\ display = NoDisplay =>
                 SetterCalls(calls) = <<>> /\ SetterCalls(calls') = <<>>
          /\ display # NoDisplay =>
                 /\ SetterCalls(calls') = ResetCalls(display)
                 /\ SetterCalls(calls) =
                        IF CalledAny(calls, "gtk_window_unfullscreen")
                        THEN ResetCalls(display)
                        ELSE <<>>
          /\ last.prev_op = "leave_fullscreen" =>
                 ~CalledAny(calls, "gtk_window_unfullscreen")
          /\ last.prev_op = "enter_fullscreen" =>
                 (CalledAny(calls, "gtk_window_unfullscreen")
                     <=> last.prev_args # last.args)]_vars

\* C1: leave_fullscreen has run right after enter_fullscreen on a window
\* never mapped, with a display attached
C1_Witness ==
    /\ last.op = "leave_fullscreen"
    /\ last.prev_op = "enter_fullscreen"
    /\ ~ever_mapped
    /\ display # NoDisplay
    /\ ~fullscreen
    /\ CalledAny(calls, "gtk_window_unfullscreen")

\* the attached display has the fullscreen flag and the monitor of the window
Mirrors ==
    /\ d_fullscreen[display] = fullscreen
    /\ d_monitor[display] = fullscreen_monitor

\* C2, as claimed: whenever the window is fullscreen the attached display
\* has its fullscreen flag set and its monitor equal to fullscreen_monitor,
\* also while the window waits for its map-event
C2_FullscreenMirrored ==
    (fullscreen /\ display # NoDisplay) => Mirrors

\* C2, amended: whenever the window is fullscreen and no mapped handler is
\* waiting for the map-event, the attached display has its fullscreen flag
\* set and its monitor equal to fullscreen_monitor
C2_FullscreenMirroredOnceMapped ==
    (fullscreen /\ display # NoDisplay /\ map_handlers = 0) => Mirrors

\* C2: the map-event has completed a deferred entry with a display attached
C2_Witness ==
    /\ last.op = "map_event"
    /\ CalledAny(calls, "mapped")
    /\ fullscreen /\ fullscreen_monitor = 1
    /\ display # NoDisplay
    /\ map_handlers = 0
    /\ d_fullscreen[display]

\* C3, as claimed: the accelerators are disabled whenever grabbed or kiosk
\* is set
C3_AccelDisabledWhileBlocked ==
    (grabbed \/ kiosk) => ~accel_enabled

\* the signals of a display the window connects handlers to
DisplaySignals ==
    {"pointer_grab", "pointer_ungrab", "keyboard_grab", "keyboard_ungrab",
     "desktop_resize", "show_hint"}

\* the fields of _VirtViewerWindowPrivate the handlers may write
WindowFields ==
    <<accel_enabled, accel_setting, enable_mnemonics_save, grabbed,
      fullscreen_monitor, desktop_resize_pending, kiosk, zoomlevel, fullscreen,
      initial_zoom_set>>

\* C4, as claimed: once another display is attached, a signal emitted by a
\* display attached earlier changes nothing in the window and makes it call
\* nothing, and a key press is not routed to it
C4_NoEventFromReplacedDisplay ==
    [][/\ (/\ last'.op \in DisplaySignals
           /\ display # NoDisplay
           /\ last'.args[1] # display)
          => (UNCHANGED WindowFields /\ calls' = <<>>)
       /\ (last'.op = "key_press" /\ display # NoDisplay)
          => \A i \in 1..Len(calls') : calls'[i].d = display]_vars

\* C5: the zoom level of the window is within
\* [MIN_ZOOM_LEVEL, MAX_ZOOM_LEVEL] in every reachable state
C5_ZoomInRange ==
    zoomlevel \in MIN_ZOOM_LEVEL..MAX_ZOOM_LEVEL

\* C5: a request above MAX_ZOOM_LEVEL has been clamped
C5_Witness ==
    /\ last.op = "set_zoom_level"
    /\ last.args[1] > MAX_ZOOM_LEVEL
    /\ zoomlevel = MAX_ZOOM_LEVEL
    /\ display # NoDisplay

\* the minimal zoom level for the desktop of the attached display
Floor == virt_viewer_window_get_minimal_zoom_level(State)

\* C6, as claimed: with a display attached the zoom level is never below the
\* minimal zoom level of its current desktop size
C6_ZoomNotBelowFloor ==
    display # NoDisplay => zoomlevel >= Floor

\* the calls of leave_fullscreen followed by those of enter_fullscreen on
\* monitor m, for a mapped window whose display is d
SwitchCalls(d, m) ==
    LET W(f, v) == [f |-> f, d |-> NoDisplay, v |-> v]
        D(f, v) == [f |-> f, d |-> d, v |-> v]
    IN  (IF d # NoDisplay THEN <<D("set_monitor", -1), D("set_fullscreen", 0)>> ELSE <<>>)
        \o <<W("force_reveal", 0), W("headerbar_hide", 0), W("set_size_request", -1),
             W("gtk_window_unfullscreen", 0),
             W("headerbar_show", 0), W("force_reveal", 1)>>
        \o (IF d # NoDisplay THEN <<D("set_monitor", m), D("set_fullscreen", 1)>> ELSE <<>>)
        \o (IF m # -1 THEN <<W("move_to_monitor", m)>> ELSE <<>>)
        \o <<W("gtk_window_fullscreen", 0)>>

\* C7: on a mapped window, enter_fullscreen(m1) followed by
\* enter_fullscreen(m2) with m2 # m1 runs the whole of leave_fullscreen once,
\* then the effects of entering on m2, and ends fullscreen on m2 with the
\* display told monitor m2 and fullscreen=TRUE
C7_LeaveBeforeReenter ==
    [][(/\ visible
        /\ last.op = "enter_fullscreen"
        /\ last'.op = "enter_fullscreen"
        /\ last'.args # last.args)
       => /\ calls' = SwitchCalls(display, last'.args[1])
          /\ fullscreen' /\ fullscreen_monitor' = last'.args[1]
          /\ win_fullscreen'
          /\ display # NoDisplay =>
                 /\ d_monitor'[display] = last'.args[1]
                 /\ d_fullscreen'[display]]_vars

\* C7: enter_fullscreen(1) has run right after enter_fullscreen(0) on a
\* mapped window with a display
C7_Witness ==
    /\ visible
    /\ last.op = "enter_fullscreen" /\ last.args = <<1>>
    /\ last.prev_op = "enter_fullscreen" /\ last.prev_args = <<0>>
    /\ display # NoDisplay
    /\ fullscreen /\ fullscreen_monitor = 1
    /\ CalledAny(calls, "gtk_window_unfullscreen")

\* a deferred entry waits for the map-event before and after the step, and
\* the step is not the delivery of the map-event
StaysPending ==
    /\ map_handlers > 0
    /\ map_handlers' > 0
    /\ last'.op # "map_event"

\* C8, as claimed: while a deferred entry waits for the map-event no other
\* operation, set_display included, reveals the headerbar, tells a display
\* fullscreen=TRUE or calls gtk_window_fullscreen
C8_NothingBeforeMap ==
    [][StaysPending =>
          /\ ~CalledAny(calls', "headerbar_show")
          /\ ~CalledAny(calls', "gtk_window_fullscreen")
          /\ ~Called(calls', "set_fullscreen", 1)]_vars

\* C8, amended: while a deferred entry waits for the map-event no other
\* operation reveals the headerbar or calls gtk_window_fullscreen, and only
\* set_display, which passes the window's pending monitor and fullscreen=TRUE
\* to the display it attaches, tells a display fullscreen=TRUE; the mapped
\* handler runs at most once per map-event and is gone after a map-event
\* delivered to the mapped window, and a map-event with no handler connected
\* changes nothing
C8_DeferredUntilMap ==
    [][/\ StaysPending =>
              /\ ~CalledAny(calls', "headerbar_show")
              /\ ~CalledAny(calls', "gtk_window_fullscreen")
              /\ Called(calls', "set_fullscreen", 1) => last'.op = "set_display"
       /\ last'.op = "map_event" =>
              /\ Len(CallsTo(calls', "mapped")) <= 1
              /\ visible => map_handlers' = 0
              /\ map_handlers = 0 =>
                     /\ calls' = <<>>
                     /\ UNCHANGED <<WindowFields, win_fullscreen, d_monitor,
                                    d_fullscreen>>]_vars

\* C8: the map-event has run the deferred entry of a window with a display
C8_Witness ==
    /\ last.op = "map_event"
    /\ CalledAny(calls, "mapped")
    /\ CalledAny(calls, "headerbar_show")
    /\ CalledAny(calls, "gtk_window_fullscreen")
    /\ Called(calls, "set_fullscreen", 1)
    /\ map_handlers = 0
    /\ win_fullscreen

\* C9, as claimed: virt_viewer_display_set_zoom_level is called only on a
\* display whose show-hint has the READY bit and that is enabled
C9_ZoomPushedOnlyWhenReady ==
    \A i \in 1..Len(calls) :
        calls[i].f = "set_zoom_level" =>
            d_ready[calls[i].d] /\ d_enabled[calls[i].d]

\* C9, amended: the show-hint handler (run by a notification or by
\* set_display) pushes the stored zoom level only when initial_zoom_set was
\* unset and the notifying display has the READY bit and is enabled; a
\* request to virt_viewer_window_set_zoom_level pushes the zoom level to the
\* attached display whatever its readiness, and only updates the stored zoom
\* level when no display is attached
C9_InitialZoomOnlyWhenReady ==
    /\ (last.op \in {"show_hint", "set_display"} /\ CalledAny(calls, "set_zoom_level"))
       => /\ d_ready[last.args[1]]
          /\ d_enabled[last.args[1]]
          /\ initial_zoom_set
    /\ display = NoDisplay => ~CalledAny(calls, "set_zoom_level")

\* C9: the show-hint notification of a ready, enabled display has pushed the
\* stored zoom level
C9_Witness ==
    /\ last.op = "show_hint"
    /\ CalledAny(calls, "set_zoom_level")
    /\ d_ready[last.args[1]]
    /\ d_enabled[last.args[1]]
    /\ initial_zoom_set

\* C10, as claimed: set_kiosk(FALSE) on a window in kiosk mode changes no
\* field of the window: kiosk stays set
C10_DisableKioskIsNoOp ==
    [][(last'.op = "set_kiosk" /\ last'.args = <<0>> /\ kiosk)
       => (kiosk' /\ UNCHANGED WindowFields)]_vars

\* every variable but the observation of the last entry point
ProgramState ==
    <<display, accel_enabled, accel_setting, enable_mnemonics_save, grabbed,
      fullscreen_monitor, desktop_resize_pending, kiosk, zoomlevel, fullscreen,
      initial_zoom_set, visible, map_handlers, map_event_pending, ever_mapped,
      win_fullscreen, win_accel_groups, gear_entries, connected,
      menu_bar_accel, enable_mnemonics, top_menu_width,
      app_fullscreen, enable_accel,
      d_monitor, d_fullscreen, d_zoom, d_enabled, d_ready, d_size>>

\* C11: hide() while kiosk is set changes nothing: the visibility of the
\* window and every other field keep their value, the attached display is
\* not disabled, and the window makes no call
C11_HideRejectedInKiosk ==
    [][(last'.op = "hide" /\ kiosk)
       => (UNCHANGED ProgramState /\ calls' = <<>>)]_vars

\* C11: hide() has been rejected on a visible kiosk window whose display is
\* enabled
C11_Witness ==
    /\ last.op = "hide"
    /\ kiosk
    /\ visible
    /\ display # NoDisplay
    /\ d_enabled[display]
    /\ calls = <<>>

\* C12: accel_enabled goes from FALSE to TRUE only in the step that handles
\* the keyboard-ungrab signal of a display; set_kiosk, show, hide,
\* set_display, the pointer-ungrab signal and the fullscreen entry points
\* never re-enable the modifiers
C12_EnabledOnlyByKeyboardUngrab ==
    [][(~accel_enabled /\ accel_enabled') => last'.op = "keyboard_ungrab"]_vars

\* C12: the keyboard-ungrab signal has re-enabled the modifiers
C12_Witness ==
    /\ last.op = "keyboard_ungrab"
    /\ accel_enabled
    /\ Called(calls, "set_menu_bar_accel", 1)
    /\ menu_bar_accel = "F10"

\* the state after virt_viewer_window_disable_modifiers run from s while the
\* application's enable-accel is b1, then virt_viewer_window_enable_modifiers
\* while it is b2
DisableThenEnable(s, b1, b2) ==
    LET s1 == virt_viewer_window_disable_modifiers([s EXCEPT !.enable_accel = b1])
    IN  virt_viewer_window_enable_modifiers([s1 EXCEPT !.enable_accel = b2])

\* C13, as claimed: from a state with the modifiers enabled,
\* disable_modifiers followed by enable_modifiers gives back the same
\* gtk-menu-bar-accel, the same gtk-enable-mnemonics and the same accelerator
\* groups on the window, whatever enable-accel is at the two calls
C13_DisableEnableInverse ==
    accel_enabled =>
        \A b1, b2 \in BOOLEAN :
            LET s2 == DisableThenEnable(State, b1, b2)
            IN  /\ s2.menu_bar_accel = menu_bar_accel
                /\ s2.enable_mnemonics = enable_mnemonics
                /\ s2.win_accel_groups = win_accel_groups
                /\ s2.accel_enabled

\* C14: from every reachable state, virt_viewer_window_disable_modifiers
\* called twice in a row leaves accel_enabled, the saved gtk-menu-bar-accel,
\* the saved gtk-enable-mnemonics, the accelerator groups of the window and
\* everything else exactly as one call does
C14_DisableIdempotent ==
    LET s1 == virt_viewer_window_disable_modifiers(State)
        s2 == virt_viewer_window_disable_modifiers(s1)
    IN  /\ ~s1.accel_enabled
        /\ s2 = s1

\* C14: one keyboard-grab signal has run disable_modifiers twice, through two
\* connected handlers, and the settings were saved once
C14_Witness ==
    /\ last.op = "keyboard_grab"
    /\ Subs(connected, last.args[1]) = 2
    /\ ~accel_enabled
    /\ Len(CallsTo(calls, "set_menu_bar_accel")) = 1
    /\ accel_setting \in MenuBarAccels
    /\ enable_mnemonics_save

\* the number of virt_viewer_window_queue_resize calls among cs
Resizes(cs) == Len(CallsTo(cs, "queue_resize"))

\* the step handles the desktop-resize signal of a display the window has
\* connected to
DesktopResizeStep ==
    /\ last'.op = "desktop_resize"
    /\ Subs(connected, last'.args[1]) > 0

\* C15: a desktop-size change while the window is not visible resizes
\* nothing and sets desktop_resize_pending, which stays set until the next
\* show(); that show() resizes exactly once and clears it; a desktop-size
\* change while the window is visible resizes at once and leaves
\* desktop_resize_pending unset
C15_DeferredDesktopResize ==
    [][/\ (DesktopResizeStep /\ ~visible)
          => (Resizes(calls') = 0 /\ desktop_resize_pending' /\ ~visible')
       /\ (DesktopResizeStep /\ visible)
          => (Resizes(calls') >= 1 /\ ~desktop_resize_pending')
       /\ (last'.op = "show" /\ desktop_resize_pending)
          => (Resizes(calls') = 1 /\ ~desktop_resize_pending')
       /\ (last'.op = "show" /\ ~desktop_resize_pending)
          => (Resizes(calls') = 0 /\ ~desktop_resize_pending')
       /\ (desktop_resize_pending /\ last'.op # "show")
          => desktop_resize_pending']_vars

\* C15: show() has applied the resize deferred by a desktop-size change of the
\* attached display
C15_Witness ==
    /\ last.op = "show"
    /\ Resizes(calls) = 1
    /\ ~desktop_resize_pending
    /\ visible
    /\ display # NoDisplay
    /\ d_size[display] = <<100, 80>>

\* C16: leave_fullscreen from a fullscreen window ends with fullscreen unset
\* and fullscreen_monitor -1, the attached display told monitor -1 then
\* fullscreen=FALSE, and gtk_window_unfullscreen called; leave_fullscreen
\* from a window that is not fullscreen changes nothing and makes no call
C16_LeaveFullscreen ==
    [][/\ (last'.op = "leave_fullscreen" /\ fullscreen)
          => /\ ~fullscreen' /\ fullscreen_monitor' = -1
             /\ map_handlers' = 0
             /\ Len(CallsTo(calls', "gtk_window_unfullscreen")) = 1
             /\ display = NoDisplay => SetterCalls(calls') = <<>>
             /\ display # NoDisplay =>
                    /\ SetterCalls(calls') =
                           <<[f |-> "set_monitor", d |-> display, v |-> -1],
                             [f |-> "set_fullscreen", d |-> display, v |-> 0]>>
                    /\ d_monitor'[display] = -1
                    /\ ~d_fullscreen'[display]
       /\ (last'.op = "leave_fullscreen" /\ ~fullscreen)
          => (UNCHANGED ProgramState /\ calls' = <<>>)]_vars

\* C16: leave_fullscreen has ended the fullscreen mode of a mapped window
\* with a display
C16_Witness ==
    /\ last.op = "leave_fullscreen"
    /\ visible
    /\ ~fullscreen /\ fullscreen_monitor = -1
    /\ ~win_fullscreen
    /\ display # NoDisplay
    /\ Called(calls, "set_fullscreen", 0)
    /\ CalledAny(calls, "gtk_window_unfullscreen")

\* C17: enter_fullscreen(m) on a window that is already fullscreen on monitor
\* m changes nothing: no field of the window, no second mapped handler, and
\* no call to a display or to GTK
C17_ReenterSameMonitor ==
    [][(/\ last'.op = "enter_fullscreen"
        /\ fullscreen
        /\ fullscreen_monitor = last'.args[1])
       => (UNCHANGED ProgramState /\ calls' = <<>>)]_vars

\* C17: enter_fullscreen(1) has been repeated while the first one waits for
\* the map-event
C17_Witness ==
    /\ last.op = "enter_fullscreen" /\ last.args = <<1>>
    /\ last.prev_op = "enter_fullscreen" /\ last.prev_args = <<1>>
    /\ fullscreen /\ fullscreen_monitor = 1
    /\ ~visible
    /\ map_handlers = 1
    /\ calls = <<>>

\* k is at least 10 times both ratios min_width/width and min_height/height
AtLeastRatios(k, min_width, min_height, width, height) ==
    /\ k * width >= 10 * min_width
    /\ k * height >= 10 * min_height

\* ceil(10 * max(min_width/width, min_height/height)): the least such k
CeilOfMaxRatio(min_width, min_height, width, height) ==
    CHOOSE k \in 0..((10 * Max(min_width, min_height)) \div Min(width, height) + 1) :
        /\ AtLeastRatios(k, min_width, min_height, width, height)
        /\ k = 0 \/ ~AtLeastRatios(k - 1, min_width, min_height, width, height)

\* the minimal zoom level as the claim states it
StatedFloor(min_width, min_height, width, height) ==
    CLAMP(CeilOfMaxRatio(min_width, min_height, width, height) * ZOOM_STEP,
          MIN_ZOOM_LEVEL, NORMAL_ZOOM_LEVEL)

\* C18: the minimal zoom level is
\* ceil(10 * max(min_width/width, min_height/height)) * ZOOM_STEP clamped
\* into [MIN_ZOOM_LEVEL, NORMAL_ZOOM_LEVEL] and a multiple of ZOOM_STEP, for
\* the sizes of FloorDesktopSizes and FloorMinimalSizes and for the attached
\* display of every reachable state; it is 40 for a 550x400 desktop and a
\* minimal size of 200x150, and set_zoom_level(10) then gives zoom level 40
C18_MinimalZoomFormula ==
    /\ \A m \in FloorMinimalSizes, size \in FloorDesktopSizes :
           /\ MinimalZoom(m[1], m[2], size[1], size[2])
                  = StatedFloor(m[1], m[2], size[1], size[2])
           /\ MinimalZoom(m[1], m[2], size[1], size[2]) % ZOOM_STEP = 0
    /\ MinimalZoom(200, 150, 550, 400) = 40
    /\ display # NoDisplay =>
           LET m == virt_viewer_window_get_minimal_dimensions(State)
               size == d_size[display]
           IN  /\ Floor = StatedFloor(m[1], m[2], size[1], size[2])
               /\ Floor % ZOOM_STEP = 0
               /\ last.op = "set_zoom_level" => zoomlevel >= Floor
               /\ (/\ last.op = "set_zoom_level" /\ last.args = <<10>>
                   /\ m[1] = 200 /\ size = <<550, 400>>) => zoomlevel = 40

\* C18: set_zoom_level(10) has been raised to 40 on a 550x400 desktop under
\* a 200 wide top-menu
C18_Witness ==
    /\ last.op = "set_zoom_level" /\ last.args = <<10>>
    /\ display # NoDisplay
    /\ top_menu_width = 200
    /\ d_size[display] = <<550, 400>>
    /\ zoomlevel = 40
    /\ Called(calls, "set_zoom_level", 40)

\* requests above MAX_ZOOM_LEVEL and below MIN_ZOOM_LEVEL
AboveMax == {MAX_ZOOM_LEVEL + 1, MAX_ZOOM_LEVEL + 500, 100000}
BelowMin == {MIN_ZOOM_LEVEL - 1, 0, -5}

\* the state and the calls virt_viewer_window_set_zoom_level(zoom_level) ends
\* with when it starts in the current state, the display widget being
\* allocated alloc
AfterSetZoomLevel(zoom_level, alloc) ==
    virt_viewer_window_set_zoom_level(Begin("set_zoom_level", <<>>, alloc), zoom_level)

\* C19: from every reachable state, set_zoom_level(x) with
\* x > MAX_ZOOM_LEVEL ends in the same state and makes the same calls as
\* set_zoom_level(MAX_ZOOM_LEVEL), and with x < MIN_ZOOM_LEVEL the same as
\* set_zoom_level(MIN_ZOOM_LEVEL)
C19_ClampedBeforeUse ==
    \A alloc \in AllocWidths :
        /\ \A x \in AboveMax :
               AfterSetZoomLevel(x, alloc) = AfterSetZoomLevel(MAX_ZOOM_LEVEL, alloc)
        /\ \A x \in BelowMin :
               AfterSetZoomLevel(x, alloc) = AfterSetZoomLevel(MIN_ZOOM_LEVEL, alloc)

\* C19: set_zoom_level(0) has stored MIN_ZOOM_LEVEL on a window without
\* display, and would do the same for MIN_ZOOM_LEVEL
C19_Witness ==
    /\ last.op = "set_zoom_level" /\ last.args = <<0>>
    /\ display = NoDisplay
    /\ zoomlevel = MIN_ZOOM_LEVEL
    /\ calls = <<>>
    /\ AfterSetZoomLevel(MIN_ZOOM_LEVEL, 220).zoomlevel = zoomlevel

\* the zoom level set_zoom_level(z) aims at in the current state, a display
\* being attached: z clamped, then raised to the minimal zoom level
Target(z) == Max(CLAMP(z, MIN_ZOOM_LEVEL, MAX_ZOOM_LEVEL), Floor)

\* C20: set_zoom_level with a display attached stores the clamped request
\* raised to the minimal zoom level; it calls neither
\* virt_viewer_display_set_zoom_level nor queue_resize exactly when that
\* value equals the zoom level of the display and the zoom level observed
\* from the allocation of the display widget; otherwise it pushes the value
\* to the display once and resizes once; on return the display's zoom level
\* equals the window's
C20_SkipOnlyWhenUnchanged ==
    [][(last'.op = "set_zoom_level" /\ display # NoDisplay)
       => LET target == Target(last'.args[1])
              skip == /\ target = d_zoom[display]
                      /\ target = RealZoom(last'.alloc, d_size[display][1])
          IN  /\ zoomlevel' = target
              /\ skip => /\ CallsTo(calls', "set_zoom_level") = <<>>
                         /\ Resizes(calls') = 0
              /\ ~skip => /\ CallsTo(calls', "set_zoom_level") =
                                 <<[f |-> "set_zoom_level", d |-> display, v |-> target]>>
                          /\ Resizes(calls') = 1
              /\ d_zoom'[display] = zoomlevel']_vars

\* C20: set_zoom_level has found the display and the allocation already at
\* the zoom level 40 it aims at, and made no call but the read of the
\* allocation
C20_Witness ==
    /\ last.op = "set_zoom_level"
    /\ display # NoDisplay
    /\ zoomlevel = 40
    /\ d_zoom[display] = 40
    /\ calls = <<[f |-> "get_allocation", d |-> display, v |-> 220]>>
    /\ d_size[display] = <<550, 400>>

\* every variable but zoomlevel and the observation of the last entry point
AllButZoomlevel ==
    <<display, accel_enabled, accel_setting, enable_mnemonics_save, grabbed,
      fullscreen_monitor, desktop_resize_pending, kiosk, fullscreen,
      initial_zoom_set, visible, map_handlers, map_event_pending, ever_mapped,
      win_fullscreen, win_accel_groups, gear_entries, connected,
      menu_bar_accel, enable_mnemonics, top_menu_width,
      app_fullscreen, enable_accel,
      d_monitor, d_fullscreen, d_zoom, d_enabled, d_ready, d_size>>

\* C21: set_zoom_level(x) on a window without display stores x clamped into
\* [MIN_ZOOM_LEVEL, MAX_ZOOM_LEVEL] and does nothing else: the minimal zoom
\* level is not applied, no call is made and no other variable changes
C21_StoreOnlyWithoutDisplay ==
    [][(last'.op = "set_zoom_level" /\ display = NoDisplay)
       => /\ zoomlevel' = CLAMP(last'.args[1], MIN_ZOOM_LEVEL, MAX_ZOOM_LEVEL)
          /\ calls' = <<>>
          /\ UNCHANGED AllButZoomlevel]_vars

\* C21: set_zoom_level(30) has stored 30 on a window without display whose
\* top-menu is 200 wide
C21_Witness ==
    /\ last.op = "set_zoom_level" /\ last.args = <<30>>
    /\ display = NoDisplay
    /\ top_menu_width = 200
    /\ zoomlevel = 30
    /\ calls = <<>>

\* the calls set_display(d) starts with: the release of the display attached
\* before, if any, then the monitor and the fullscreen flag of the window
\* passed to d
AttachCalls(old, d, monitor, fs) ==
    (IF old # NoDisplay THEN <<[f |-> "remove_page", d |-> old, v |-> 1]>> ELSE <<>>)
    \o <<[f |-> "set_monitor", d |-> d, v |-> monitor],
         [f |-> "set_fullscreen", d |-> d, v |-> Bool2Int(fs)]>>

\* C22: set_display(d) with d not NULL first releases the display attached
\* before, then sets d's monitor to fullscreen_monitor and d's fullscreen
\* flag to fullscreen, and ends with d as the attached display and the
\* fullscreen state of the window as it was
C22_AttachPropagates ==
    [][(last'.op = "set_display" /\ last'.args[1] # NoDisplay)
       => LET d == last'.args[1]
              first == AttachCalls(display, d, fullscreen_monitor, fullscreen)
          IN  /\ display' = d
              /\ d_monitor'[d] = fullscreen_monitor
              /\ d_fullscreen'[d] = fullscreen
              /\ UNCHANGED <<fullscreen, fullscreen_monitor>>
              /\ Len(calls') >= Len(first)
              /\ SubSeq(calls', 1, Len(first)) = first
              /\ Len(CallsTo(calls', "remove_page")) = Bool2Int(display # NoDisplay)]_vars

\* C22: display 2 has replaced display 1 on a mapped window that is
\* fullscreen on monitor 1
C22_Witness ==
    /\ last.op = "set_display" /\ last.args = <<2>>
    /\ display = 2
    /\ visible /\ map_handlers = 0
    /\ fullscreen /\ fullscreen_monitor = 1
    /\ d_monitor[2] = 1 /\ d_fullscreen[2]
    /\ Called(calls, "remove_page", 1)
    /\ calls[1] = [f |-> "remove_page", d |-> 1, v |-> 1]

\* C23: whenever a display is attached and no mapped handler waits for the
\* map-event, the fullscreen flag last set on the display equals the
\* window's and the monitor last set on it equals fullscreen_monitor, after
\* any sequence of enter_fullscreen, leave_fullscreen, the fullscreen toggle,
\* map-events, show, hide and set_display
C23_DisplayFollowsWindow ==
    (display # NoDisplay /\ map_handlers = 0) => Mirrors

\* C23: the fullscreen toggle has made a mapped window with a display
\* fullscreen
C23_Witness ==
    /\ last.op = "menu_view_fullscreen"
    /\ visible
    /\ display # NoDisplay
    /\ map_handlers = 0
    /\ fullscreen /\ fullscreen_monitor = -1
    /\ d_fullscreen[display] /\ d_monitor[display] = -1
    /\ Called(calls, "set_fullscreen", 1)

\* C24: between entry points at most one mapped handler is connected to the
\* window, and a connected handler implies that fullscreen is set; repeated
\* enter_fullscreen calls on an unmapped window do not accumulate handlers
C24_OneMappedHandler ==
    /\ map_handlers \in {0, 1}
    /\ map_handlers = 1 => fullscreen

\* C24: enter_fullscreen on another monitor has followed enter_fullscreen on
\* a window that is not mapped, and one handler is connected
C24_Witness ==
    /\ last.op = "enter_fullscreen" /\ last.args = <<1>>
    /\ last.prev_op = "enter_fullscreen" /\ last.prev_args = <<0>>
    /\ ~visible
    /\ map_handlers = 1
    /\ fullscreen /\ fullscreen_monitor = 1

\* C25: between entry points, fullscreen unset implies that
\* fullscreen_monitor is -1
C25_NoMonitorUnlessFullscreen ==
    ~fullscreen => fullscreen_monitor = -1

\* C25: leave_fullscreen has ended the fullscreen mode a window had on
\* monitor 1 after it was mapped
C25_Witness ==
    /\ last.op = "leave_fullscreen"
    /\ last.prev_op = "enter_fullscreen" /\ last.prev_args = <<1>>
    /\ ever_mapped
    /\ ~fullscreen
    /\ fullscreen_monitor = -1
    /\ Called(calls, "set_size_request", -1)

\* a deferred entry on monitor m waits for the map-event
DeferredOn(m) ==
    /\ fullscreen /\ fullscreen_monitor = m
    /\ map_handlers > 0

\* the window is fullscreen on monitor m: gtk_window_fullscreen was called,
\* the attached display was told, no handler is connected
FullscreenOn(m) ==
    /\ fullscreen /\ fullscreen_monitor = m
    /\ win_fullscreen
    /\ map_handlers = 0
    /\ display # NoDisplay => d_monitor[display] = m /\ d_fullscreen[display]

\* C26, as claimed: a deferred entry on monitor m whose map-event is queued
\* leads to the window being fullscreen on m, unless leave_fullscreen or
\* enter_fullscreen on another monitor ends the wait
C26_DeliveredMapCompletes ==
    \A m \in DeferredMonitors :
        (DeferredOn(m) /\ map_event_pending)
            ~> (FullscreenOn(m) \/ ~fullscreen \/ fullscreen_monitor # m)

\* C26, amended: the map-event delivered to a window that is still mapped
\* completes the deferred entry on its monitor in that step, and the one
\* delivered to a window hidden in the meantime leaves the entry deferred
\* with one handler connected; a deferred entry of a mapped window whose
\* map-event is queued leads to the window being fullscreen on that
\* monitor, unless leave_fullscreen, enter_fullscreen on another monitor or
\* hide ends the wait
C26_MappedDeliveryCompletes ==
    /\ [][(last'.op = "map_event" /\ map_handlers > 0) =>
              /\ fullscreen' /\ fullscreen_monitor' = fullscreen_monitor
              /\ IF visible
                 THEN /\ Called(calls', "gtk_window_fullscreen", 0)
                      /\ FullscreenOn(fullscreen_monitor)'
                 ELSE /\ ~CalledAny(calls', "gtk_window_fullscreen")
                      /\ map_handlers' = 1
                      /\ win_fullscreen' = win_fullscreen]_vars
    /\ \A m \in DeferredMonitors :
           (DeferredOn(m) /\ map_event_pending /\ visible)
               ~> (FullscreenOn(m) \/ ~fullscreen \/ fullscreen_monitor # m
                     \/ ~visible)

\* C26: the map-event has completed the entry deferred on monitor 1 of a
\* window with a display
C26_Witness ==
    /\ last.op = "map_event"
    /\ CalledAny(calls, "mapped")
    /\ visible
    /\ display # NoDisplay
    /\ FullscreenOn(1)
    /\ Called(calls, "set_monitor", 1)

\* the two saved settings of the window and the two settings of GTK
SavedSettings == <<accel_setting, enable_mnemonics_save>>
GtkSettings == <<menu_bar_accel, enable_mnemonics>>

\* C27: the saved gtk-menu-bar-accel and gtk-enable-mnemonics change only in
\* the step that moves accel_enabled from TRUE to FALSE, where they take the
\* values then in force and the settings are blanked; a request to disable
\* made while the modifiers are disabled, by kiosk mode or by a keyboard
\* grab, changes neither; the step that enables the modifiers again puts the
\* saved values back, so that the settings of an enabled window are never
\* the blanked ones
C27_SavedOnlyOnDisable ==
    /\ [](IF accel_enabled
          THEN menu_bar_accel \in MenuBarAccels
          ELSE menu_bar_accel = "" /\ ~enable_mnemonics
                   /\ accel_setting \in MenuBarAccels)
    /\ [][/\ ~accel_enabled => SavedSettings' = SavedSettings
          /\ (accel_enabled /\ accel_enabled') => GtkSettings' = GtkSettings
          /\ (accel_enabled /\ ~accel_enabled') =>
                 /\ SavedSettings' = GtkSettings
                 /\ GtkSettings' = <<"", FALSE>>
          /\ (~accel_enabled /\ accel_enabled') =>
                 /\ last'.op = "keyboard_ungrab"
                 /\ GtkSettings' = SavedSettings]_vars

\* C27: a keyboard grab has asked to disable the modifiers of a window whose
\* kiosk mode had disabled them: nothing was saved again, and the saved
\* values are still the ones GTK had
C27_Witness ==
    /\ last.op = "keyboard_grab"
    /\ kiosk
    /\ ~accel_enabled
    /\ ~CalledAny(calls, "set_menu_bar_accel")
    /\ accel_setting = "F9"
    /\ enable_mnemonics_save
    /\ menu_bar_accel = ""

\* C28: initial_zoom_set, once set, stays set, and from then on neither
\* attaching a display nor a show-hint notification, of whatever display and
\* whatever its readiness, pushes the stored zoom level: the zoom level of
\* every display is left as it was
C28_InitialZoomOncePerWindow ==
    [][/\ initial_zoom_set => initial_zoom_set'
       /\ (initial_zoom_set /\ last'.op \in {"set_display", "show_hint"}) =>
              /\ ~CalledAny(calls', "set_zoom_level")
              /\ d_zoom' = d_zoom
              /\ zoomlevel' = zoomlevel]_vars

\* C28: display 2, attached after the zoom level was pushed to display 1 and
\* then changed, has become ready and enabled, and keeps its own zoom level
C28_Witness ==
    /\ last.op = "show_hint" /\ last.args = <<2, 1>>
    /\ display = 2
    /\ d_ready[2] /\ d_enabled[2]
    /\ initial_zoom_set
    /\ ~CalledAny(calls, "set_zoom_level")
    /\ d_zoom[2] # zoomlevel
    /\ d_zoom[1] = zoomlevel

\* C29: the fullscreen toggle of a window that is not fullscreen acts as
\* enter_fullscreen(-1); that of a fullscreen window acts as
\* leave_fullscreen when the application is not in fullscreen mode, and
\* otherwise only sets the fullscreen mode of the application to FALSE,
\* leaving every field of the window, fullscreen included, and the display
\* as they were
C29_ToggleFullscreen ==
    LET start   == Begin("menu_view_fullscreen", <<>>, 0)
        toggled == virt_viewer_window_menu_view_fullscreen(start)
        entered == virt_viewer_window_enter_fullscreen(start, -1)
        left    == virt_viewer_window_leave_fullscreen(start)
    IN  /\ ~fullscreen => toggled = entered
        /\ (fullscreen /\ ~app_fullscreen) => toggled = left
        /\ (fullscreen /\ app_fullscreen) =>
               /\ toggled.fullscreen
               /\ toggled.calls = <<[f |-> "app_set_fullscreen", d |-> NoDisplay, v |-> 0]>>
               /\ toggled = [start EXCEPT !.app_fullscreen = FALSE,
                                          !.calls = toggled.calls]
        /\ last.op = "menu_view_fullscreen" =>
               \/ /\ fullscreen /\ fullscreen_monitor = -1
                  /\ ~CalledAny(calls, "app_set_fullscreen")
               \/ /\ ~fullscreen /\ ~app_fullscreen
                  /\ ~CalledAny(calls, "app_set_fullscreen")
               \/ /\ fullscreen /\ ~app_fullscreen
                  /\ calls = <<[f |-> "app_set_fullscreen", d |-> NoDisplay, v |-> 0]>>

\* C29: the toggle of a fullscreen window, made while the application was in
\* fullscreen mode, has turned that mode off and left the window fullscreen
C29_Witness ==
    /\ last.op = "menu_view_fullscreen"
    /\ fullscreen /\ win_fullscreen
    /\ ~app_fullscreen
    /\ calls = <<[f |-> "app_set_fullscreen", d |-> NoDisplay, v |-> 0]>>

==========================================================================
